---------------------------- MODULE Spec2Model ----------------------------
(***************************************************************************)
(* Model of msdss_data_api: the DataHandler guard, the DataManager, the    *)
(* MetadataManager and the routes of get_data_router.                      *)
(*                                                                         *)
(* Python strings are sequences of one-character strings, so that          *)
(* shlex.split and the f-string that builds the ledger filter are          *)
(* computed rather than assumed.  A Python list is a sequence, a row a     *)
(* function from column to value, None an option that is not "some".       *)
(***************************************************************************)
EXTENDS Integers, Sequences, FiniteSets, TLC

(***************************************************************************)
(* Bounds of the model.                                                    *)
(***************************************************************************)
MaxRows == 2     \* most rows of a table a DataManager is called on directly
MaxWhere == 1    \* most filter strings in one call of a DataManager
MaxFilters == 2  \* most filter strings of a list given to the validation
MaxDatasetRows == 1   \* most rows of a dataset behind the routes
MaxClock == 1    \* last instant of the wall clock
MaxRecords == 2  \* most records of the ledger a MetadataManager is called on directly
MaxCreators == 2 \* callers of the create route at the same time
MaxManagers == 4 \* most managers constructed in one process

(***************************************************************************)
(* Strings.                                                                *)
(***************************************************************************)
Range(s) == {s[i] : i \in 1..Len(s)}

In(x, list) == \E i \in 1..Len(list) : list[i] = x

LOWER == <<"a","b","c","d","e","f","g","h","i","j","k","l","m",
           "n","o","p","q","r","s","t","u","v","w","x","y","z">>

UPPER == <<"A","B","C","D","E","F","G","H","I","J","K","L","M",
           "N","O","P","Q","R","S","T","U","V","W","X","Y","Z">>

\* str.upper() on one character
UpperChar(c) ==
    IF \E i \in 1..26 : LOWER[i] = c
    THEN UPPER[CHOOSE i \in 1..26 : LOWER[i] = c]
    ELSE c

\* str.upper()
Upper(s) == [i \in 1..Len(s) |-> UpperChar(s[i])]

(***************************************************************************)
(* shlex.split(s): POSIX mode, whitespace_split, no comments.  The inputs  *)
(* of the model use blanks and single quotes only (no double quote, no     *)
(* backslash).  st is the lexer state: "ws" between tokens, "word" inside  *)
(* a token, "quote" inside '...'.  An unclosed quote raises ValueError     *)
(* ("No closing quotation"): ok = FALSE.                                   *)
(***************************************************************************)
RECURSIVE shlex(_, _, _, _, _, _)
shlex(s, i, st, tok, quoted, out) ==
    IF i > Len(s)
    THEN IF st = "quote"
         THEN [ok |-> FALSE, tokens |-> <<>>]
         ELSE IF st = "word" /\ (tok # <<>> \/ quoted)
              THEN [ok |-> TRUE, tokens |-> Append(out, tok)]
              ELSE [ok |-> TRUE, tokens |-> out]
    ELSE LET c == s[i] IN
         CASE st = "ws" ->
                IF c = " " THEN shlex(s, i + 1, "ws", <<>>, FALSE, out)
                ELSE IF c = "'" THEN shlex(s, i + 1, "quote", <<>>, TRUE, out)
                ELSE shlex(s, i + 1, "word", <<c>>, FALSE, out)
           [] st = "quote" ->
                IF c = "'" THEN shlex(s, i + 1, "word", tok, TRUE, out)
                ELSE shlex(s, i + 1, "quote", Append(tok, c), TRUE, out)
           [] OTHER ->
                IF c = " "
                THEN IF tok # <<>> \/ quoted
                     THEN shlex(s, i + 1, "ws", <<>>, FALSE, Append(out, tok))
                     ELSE shlex(s, i + 1, "ws", <<>>, FALSE, out)
                ELSE IF c = "'" THEN shlex(s, i + 1, "quote", tok, TRUE, out)
                ELSE shlex(s, i + 1, "word", Append(tok, c), quoted, out)

split(s) == shlex(s, 1, "ws", <<>>, FALSE, <<>>)

(***************************************************************************)
(* Optional values.  None is the option that is not "some".                *)
(***************************************************************************)
None == [some |-> FALSE, val |-> <<>>]

Some(v) == [some |-> TRUE, val |-> v]

\* Python truthiness of an optional list: None and [] are falsy
Truthy(o) == o.some /\ Len(o.val) > 0

(***************************************************************************)
(* Names and constants of defaults.py.                                     *)
(***************************************************************************)
DEFAULT_METADATA_TABLE == <<"d","a","t","a">>

DEFAULT_USER_TABLE == <<"u","s","e","r">>

DEFAULT_RESTRICTED_TABLES == <<DEFAULT_METADATA_TABLE, DEFAULT_USER_TABLE>>

\* msdss_base_database.defaults.DEFAULT_SUPPORTED_OPERATORS
DEFAULT_SUPPORTED_OPERATORS ==
    << <<"=">>, <<"!","=">>, <<">">>, <<">","=">>, <<"<">>, <<"<","=">>,
       <<"L","I","K","E">>, <<"I","L","I","K","E">>,
       <<"N","O","T","L","I","K","E">>, <<"N","O","T","I","L","I","K","E">>,
       <<"C","O","N","T","A","I","N","S">>,
       <<"S","T","A","R","T","S","W","I","T","H">>,
       <<"E","N","D","S","W","I","T","H">> >>


(***************************************************************************)
(* Outcomes.  A call ends with a status: 200, or the HTTPException the     *)
(* guard raised (code, which check, and the name the detail mentions), or  *)
(* an error that is not an HTTPException (code 500).                       *)
(***************************************************************************)
OK == [code |-> 200, detail |-> "ok", arg |-> <<>>]

HTTPException(code, detail, arg) == [code |-> code, detail |-> detail, arg |-> arg]

ValueError == [code |-> 500, detail |-> "ValueError", arg |-> <<>>]

TypeError == [code |-> 500, detail |-> "TypeError", arg |-> <<>>]

StoreError == [code |-> 500, detail |-> "StoreError", arg |-> <<>>]

\* one call on the Database object, as the Store sees it
Call(fn, table, where) == [fn |-> fn, table |-> table, where |-> where]

\* result of a guard check: the status and the Store calls it made
Check(status, calls) == [status |-> status, calls |-> calls]

\* run check b after check a, unless a raised
Then(a, b) == IF a.status # OK THEN a ELSE Check(b.status, a.calls \o b.calls)

(***************************************************************************)
(* The Store (msdss_base_database.Database), an external collaborator.     *)
(* A table is absent or has a column set, a set of unique columns and a    *)
(* sequence of rows; a row maps each column to a value.                    *)
(***************************************************************************)
NoTable == [exists |-> FALSE, cols |-> {}, unique |-> {}, rows |-> <<>>]

Table(cols, unique, rows) == [exists |-> TRUE, cols |-> cols, unique |-> unique, rows |-> rows]

has_table(store, table) == store[table].exists

\* one filter clause against one row; the model's requests use =, != and LIKE
\* (without wildcards) only
Matches(row, w) ==
    LET op == Upper(w[2]) IN
    CASE op = <<"=">> -> row[w[1]] = w[3]
      [] op = <<"!","=">> -> row[w[1]] # w[3]
      [] OTHER -> row[w[1]] = w[3]

\* the WHERE of a statement: no clause selects every row
MatchesAll(row, where, where_boolean) ==
    IF ~Truthy(where) THEN TRUE
    ELSE IF where_boolean = "OR"
         THEN \E i \in 1..Len(where.val) : Matches(row, where.val[i])
         ELSE \A i \in 1..Len(where.val) : Matches(row, where.val[i])

\* a clause that names a column the table does not have makes the Store raise
WhereFits(t, where) ==
    ~Truthy(where) \/ \A i \in 1..Len(where.val) : where.val[i][1] \in t.cols

RECURSIVE SelectRows(_, _, _)
SelectRows(rows, where, where_boolean) ==
    IF rows = <<>> THEN <<>>
    ELSE IF MatchesAll(Head(rows), where, where_boolean)
         THEN <<Head(rows)>> \o SelectRows(Tail(rows), where, where_boolean)
         ELSE SelectRows(Tail(rows), where, where_boolean)

RECURSIVE RejectRows(_, _, _)
RejectRows(rows, where, where_boolean) ==
    IF rows = <<>> THEN <<>>
    ELSE IF MatchesAll(Head(rows), where, where_boolean)
         THEN RejectRows(Tail(rows), where, where_boolean)
         ELSE <<Head(rows)>> \o RejectRows(Tail(rows), where, where_boolean)

\* dict of an update as a sequence of <<key, value>> pairs, in insertion order
Keys(data) == [i \in 1..Len(data) |-> data[i][1]]

RECURSIVE Assign(_, _)
Assign(row, data) ==
    IF data = <<>> THEN row
    ELSE Assign([row EXCEPT ![Head(data)[1]] = Head(data)[2]], Tail(data))

\* a Store operation: whether it raised, and the store after it
Done(store) == [ok |-> TRUE, store |-> store]

Raised(store) == [ok |-> FALSE, store |-> store]

\* SQL NULL (a Python None stored in a cell)
NULL == <<"NULL">>

\* a row as the table stores it: a column the row does not give is NULL
Stored(row, cols) == [c \in cols |-> IF c \in DOMAIN row THEN row[c] ELSE NULL]

\* Database.insert: appends, creating the table from the rows when it is
\* absent; a row with a column the table lacks, or a repeated value of a
\* unique column, raises
StoreInsert(store, table, rows) ==
    LET t == store[table] IN
    IF ~t.exists
    THEN IF rows = <<>> \/ \E i \in 1..Len(rows) : DOMAIN rows[i] # DOMAIN rows[1]
         THEN Raised(store)
         ELSE Done([store EXCEPT ![table] = Table(DOMAIN rows[1], {}, rows)])
    ELSE IF \E i \in 1..Len(rows) : ~(DOMAIN rows[i] \subseteq t.cols)
         THEN Raised(store)
         ELSE LET new == [i \in 1..Len(rows) |-> Stored(rows[i], t.cols)] IN
              IF \E u \in t.unique :
                    \/ \E i \in 1..Len(new), j \in 1..Len(t.rows) :
                           new[i][u] # NULL /\ new[i][u] = t.rows[j][u]
                    \/ \E i, j \in 1..Len(new) :
                           i # j /\ new[i][u] # NULL /\ new[i][u] = new[j][u]
              THEN Raised(store)
              ELSE Done([store EXCEPT ![table].rows = @ \o new])

\* Database.drop_table
StoreDropTable(store, table) ==
    IF ~store[table].exists THEN Raised(store)
    ELSE Done([store EXCEPT ![table] = NoTable])

\* Database.delete
StoreDelete(store, table, where, where_boolean) ==
    LET t == store[table] IN
    IF ~t.exists \/ ~WhereFits(t, where) THEN Raised(store)
    ELSE Done([store EXCEPT ![table].rows = RejectRows(t.rows, where, where_boolean)])

\* Database.update
StoreUpdate(store, table, where, values) ==
    LET t == store[table] IN
    IF ~t.exists \/ ~WhereFits(t, where) \/ ~(Range(Keys(values)) \subseteq t.cols)
    THEN Raised(store)
    ELSE Done([store EXCEPT ![table].rows =
                  [i \in 1..Len(t.rows) |->
                      IF MatchesAll(t.rows[i], where, "AND")
                      THEN Assign(t.rows[i], values)
                      ELSE t.rows[i]]])

\* Database.select(...).to_dict(orient='records')
StoreSelect(store, table, where, where_boolean) ==
    SelectRows(store[table].rows, where, where_boolean)

(***************************************************************************)
(* handlers.py: DataHandler.  h is the handler object: its permitted and   *)
(* restricted table lists; the database is the store passed along.         *)
(***************************************************************************)
DataHandler(permitted_tables, restricted_tables) ==
    [permitted_tables |-> permitted_tables, restricted_tables |-> restricted_tables]

handle_restrictions(h, dataset) ==
    IF In(dataset, h.restricted_tables)
    THEN Check(HTTPException(401, "restricted", <<>>), <<>>)
    ELSE Check(OK, <<>>)

\* handle_permissions that takes an empty permitted list as "nothing is
\* permitted"
handle_permissions_strict(h, dataset) ==
    IF ~In(dataset, h.permitted_tables)
    THEN Check(HTTPException(401, "permitted", <<>>), <<>>)
    ELSE Check(OK, <<>>)

handle_permissions(h, dataset) ==
    IF Len(h.permitted_tables) > 0 /\ ~In(dataset, h.permitted_tables)
    THEN Check(HTTPException(401, "permitted", <<>>), <<>>)
    ELSE Check(OK, <<>>)

\* the existence test of handle_read: one has_table call
read_exists(store, dataset) ==
    IF ~has_table(store, dataset)
    THEN Check(HTTPException(404, "not_found", <<>>), <<Call("has_table", dataset, None)>>)
    ELSE Check(OK, <<Call("has_table", dataset, None)>>)

handle_read(h, store, dataset) ==
    Then(handle_restrictions(h, dataset),
    Then(handle_permissions(h, dataset),
         read_exists(store, dataset)))

\* handle_write without its test: the table is looked up and never refused
write_absent_always(store, dataset) == Check(OK, <<Call("has_table", dataset, None)>>)

\* the non-existence test of handle_write
write_absent(store, dataset) ==
    IF has_table(store, dataset)
    THEN Check(HTTPException(400, "exists", <<>>), <<Call("has_table", dataset, None)>>)
    ELSE Check(OK, <<Call("has_table", dataset, None)>>)

handle_write(h, store, dataset) ==
    Then(handle_restrictions(h, dataset),
    Then(handle_permissions(h, dataset),
         write_absent(store, dataset)))

\* where_list: an optional list of token lists
handle_where(where_list) ==
    IF ~Truthy(where_list) THEN Check(OK, <<>>)
    ELSE LET ws == where_list.val
             bad == {i \in 1..Len(ws) : ~In(Upper(ws[i][2]), DEFAULT_SUPPORTED_OPERATORS)}
         IN  IF \E i \in 1..Len(ws) : Len(ws[i]) # 3
             THEN Check(HTTPException(400, "where_format", <<>>), <<>>)
             ELSE IF bad # {}
                  THEN Check(HTTPException(400, "operator",
                                 ws[CHOOSE i \in bad : \A j \in bad : i <= j][2]), <<>>)
                  ELSE Check(OK, <<>>)

\* handle_delete that looks at the filter only when delete_all is off
delete_where_skipped(where_list, delete_all) ==
    IF delete_all THEN Check(OK, <<>>)
    ELSE IF ~where_list.some
         THEN Check(HTTPException(400, "where_required", <<>>), <<>>)
         ELSE handle_where(where_list)

\* the filter requirement of handle_delete
delete_where(where_list, delete_all) ==
    IF ~delete_all /\ ~where_list.some
    THEN Check(HTTPException(400, "where_required", <<>>), <<>>)
    ELSE handle_where(where_list)

handle_delete(h, store, dataset, where_list, delete_all) ==
    Then(handle_read(h, store, dataset),
         delete_where(where_list, delete_all))

\* handle_update without its column test
update_columns_none(store, dataset, data) == Check(OK, <<Call("_get_table", dataset, None)>>)

\* the column test of handle_update: the first key that is no column
update_columns(store, dataset, data) ==
    LET columns == store[dataset].cols
        bad == {i \in 1..Len(data) : data[i][1] \notin columns}
    IN  IF bad # {}
        THEN Check(HTTPException(400, "column",
                       data[CHOOSE i \in bad : \A j \in bad : i <= j][1]),
                   <<Call("_get_table", dataset, None)>>)
        ELSE Check(OK, <<Call("_get_table", dataset, None)>>)

handle_update(h, store, dataset, data, where_list) ==
    Then(handle_restrictions(h, dataset),
    Then(handle_permissions(h, dataset),
    Then(handle_read(h, store, dataset),
    Then(handle_where(where_list),
         update_columns(store, dataset, data)))))

(***************************************************************************)
(* managers.py: DataManager.  Every operation returns the status of the    *)
(* call, the store after it, the Store calls made and the value returned.  *)
(* The handler is always present (every constructor of the package gives   *)
(* the manager one).                                                       *)
(***************************************************************************)
Result(status, store, calls, result) ==
    [status |-> status, store |-> store, calls |-> calls, result |-> result]

\* the Store operation r made whatever the guard g answered
Run_unguarded(g, store, r, c, result) ==
    IF g.status # OK THEN Result(g.status, r.store, Append(g.calls, c), <<>>)
    ELSE IF ~r.ok THEN Result(StoreError, r.store, Append(g.calls, c), <<>>)
    ELSE Result(OK, r.store, Append(g.calls, c), result)

\* the Store operation r, made as call c after the guard g passed
Run(g, store, r, c, result) ==
    IF g.status # OK THEN Result(g.status, store, g.calls, <<>>)
    ELSE IF ~r.ok THEN Result(StoreError, r.store, Append(g.calls, c), <<>>)
    ELSE Result(OK, r.store, Append(g.calls, c), result)

\* [split(w) for w in where]
SplitEach(strings) == [i \in 1..Len(strings) |-> split(strings[i]).tokens]

SplitRaises(strings) == \E i \in 1..Len(strings) : ~split(strings[i]).ok

\* where = [split(w) for w in where] if where else where
SplitWhere(where) == IF Truthy(where) THEN Some(SplitEach(where.val)) ELSE where

\* DataManager.create up to the insert: the guard, which reads the Store
DataManager_create_guard(h, store, dataset) ==
    Then(handle_restrictions(h, dataset), handle_write(h, store, dataset))

\* the insert of DataManager.create with the table looked up once more
DataManager_create_insert_rechecked(store, dataset, data) ==
    IF has_table(store, dataset)
    THEN Result(HTTPException(400, "exists", <<>>), store, <<>>, <<>>)
    ELSE Run(Check(OK, <<>>), store, StoreInsert(store, dataset, data),
             Call("insert", dataset, None), <<>>)

\* DataManager.create after the guard: self.database.insert(dataset, data)
DataManager_create_insert(store, dataset, data) ==
    Run(Check(OK, <<>>), store, StoreInsert(store, dataset, data),
        Call("insert", dataset, None), <<>>)

DataManager_create(h, store, dataset, data) ==
    LET g == DataManager_create_guard(h, store, dataset)
        r == DataManager_create_insert(store, dataset, data)
    IN  IF g.status # OK THEN Result(g.status, store, g.calls, <<>>)
        ELSE Result(r.status, r.store, g.calls \o r.calls, r.result)

DataManager_delete(h, store, dataset, where, where_boolean, delete_all) ==
    IF Truthy(where) /\ SplitRaises(where.val)
    THEN Result(ValueError, store, <<>>, <<>>)
    ELSE LET w == SplitWhere(where)
             g == handle_delete(h, store, dataset, w, delete_all)
         IN  IF delete_all
             THEN Run(g, store, StoreDropTable(store, dataset),
                      Call("drop_table", dataset, None), <<>>)
             ELSE Run(g, store, StoreDelete(store, dataset, w, where_boolean),
                      Call("delete", dataset, w), <<>>)

DataManager_get(h, store, dataset, where, where_boolean) ==
    IF Truthy(where) /\ SplitRaises(where.val)
    THEN Result(ValueError, store, <<>>, <<>>)
    ELSE LET w == SplitWhere(where)
             g == Then(handle_read(h, store, dataset), handle_where(w))
         IN  Run(g, store,
                 IF WhereFits(store[dataset], w) THEN Done(store) ELSE Raised(store),
                 Call("select", dataset, w),
                 StoreSelect(store, dataset, w, where_boolean))

DataManager_get_columns(h, store, dataset) ==
    Run(handle_read(h, store, dataset), store, Done(store),
        Call("columns", dataset, None), <<Cardinality(store[dataset].cols)>>)

DataManager_get_rows(h, store, dataset) ==
    Run(handle_read(h, store, dataset), store, Done(store),
        Call("rows", dataset, None), <<Len(store[dataset].rows)>>)

DataManager_insert(h, store, dataset, data) ==
    Run(Then(handle_restrictions(h, dataset), handle_read(h, store, dataset)),
        store, StoreInsert(store, dataset, data), Call("insert", dataset, None), <<>>)

\* where is not optional here: [split(w) for w in None] is a TypeError
DataManager_update(h, store, dataset, data, where) ==
    IF ~where.some THEN Result(TypeError, store, <<>>, <<>>)
    ELSE IF SplitRaises(where.val) THEN Result(ValueError, store, <<>>, <<>>)
    ELSE LET w == Some(SplitEach(where.val))
         IN  Run(handle_update(h, store, dataset, data, w), store,
                 StoreUpdate(store, dataset, w, data), Call("update", dataset, w), <<>>)

(***************************************************************************)
(* managers.py: MetadataManager, over the ledger table.  The columns are   *)
(* DEFAULT_METADATA_COLUMNS without the autoincrement id.                  *)
(***************************************************************************)
C_dataset == <<"d","a","t","a","s","e","t">>

C_title == <<"t","i","t","l","e">>

C_description == <<"d","e","s","c","r","i","p","t","i","o","n">>

C_tags == <<"t","a","g","s">>

C_source == <<"s","o","u","r","c","e">>

C_created_by == <<"c","r","e","a","t","e","d","_","b","y">>

C_created_at == <<"c","r","e","a","t","e","d","_","a","t">>

C_updated_at == <<"u","p","d","a","t","e","d","_","a","t">>

DEFAULT_METADATA_COLUMNS ==
    {C_dataset, C_title, C_description, C_tags, C_source,
     C_created_by, C_created_at, C_updated_at}

\* the table MetadataManager.__init__ creates when the ledger is absent
EmptyLedger == Table(DEFAULT_METADATA_COLUMNS, {C_dataset}, <<>>)

\* the handler MetadataManager.__init__ gives its data manager
MetadataHandler == DataHandler(<<DEFAULT_METADATA_TABLE>>, <<>>)

\* the objects of a process: the DataHandler objects, and the managers, each
\* with the place of its handler object; a MetadataManager has the place of
\* the DataManager it wraps, a DataManager has 0 there
Objects(handlers, managers) == [handlers |-> handlers, managers |-> managers]

Manager(handler, wraps, default) == [handler |-> handler, wraps |-> wraps, default |-> default]

\* the default of the handler argument of DataManager.__init__:
\* DataHandler(), evaluated once when the class is defined; it is object 1
NoManagers == Objects(<<DataHandler(<<>>, DEFAULT_RESTRICTED_TABLES)>>, <<>>)

\* DataManager.__init__(database, handler): self.handler = handler, the
\* object itself
DataManager_init(o, handler) ==
    Objects(o.handlers, Append(o.managers, Manager(handler, 0, handler = 1)))

\* DataHandler(database, permitted_tables, restricted_tables): a new object
DataHandler_init(o, permitted_tables, restricted_tables) ==
    Objects(Append(o.handlers, DataHandler(permitted_tables, restricted_tables)), o.managers)

\* MetadataManager.__init__(data_manager): sets the lists of the handler
\* object of data_manager
MetadataManager_init(o, data_manager) ==
    LET h == o.managers[data_manager].handler IN
    Objects([o.handlers EXCEPT ![h] = DataHandler(<<DEFAULT_METADATA_TABLE>>, <<>>)],
            Append(o.managers, Manager(h, data_manager, FALSE)))

\* f'dataset = {dataset}'
DatasetFilter(dataset) == <<"d","a","t","a","s","e","t"," ","="," ">> \o dataset

\* data is a dict (isdict) or a list of dicts
Dict(d) == [isdict |-> TRUE, val |-> d]

List(l) == [isdict |-> FALSE, val |-> l]

MetadataManager_create(store, dataset, data) ==
    LET list == IF data.isdict THEN <<data.val>> ELSE data.val
        forced == [list EXCEPT ![1] = (C_dataset :> dataset) @@ list[1]]
    IN  DataManager_insert(MetadataHandler, store, DEFAULT_METADATA_TABLE, forced)

MetadataManager_delete(store, dataset) ==
    DataManager_delete(MetadataHandler, store, DEFAULT_METADATA_TABLE,
                       Some(<<DatasetFilter(dataset)>>), "AND", FALSE)

MetadataManager_get(store, dataset) ==
    DataManager_get(MetadataHandler, store, DEFAULT_METADATA_TABLE,
                    Some(<<DatasetFilter(dataset)>>), "AND")

MetadataManager_search(store, where, where_boolean) ==
    DataManager_get(MetadataHandler, store, DEFAULT_METADATA_TABLE, where, where_boolean)

MetadataManager_update(store, dataset, data) ==
    DataManager_update(MetadataHandler, store, DEFAULT_METADATA_TABLE, data,
                       Some(<<DatasetFilter(dataset)>>))

\* dt is the instant the call uses: the dt given, or datetime.now()
MetadataManager_updated_at(store, dataset, dt) ==
    MetadataManager_update(store, dataset, << <<C_updated_at, dt>> >>)

(***************************************************************************)
(* tools.py and routers.py: the wiring of get_data_router and its routes.  *)
(* A route runs its manager calls in order; an exception of one call ends  *)
(* the request with that status and skips the calls after it.              *)
(***************************************************************************)
\* restricted tables of a route as the defaults merged with the override
route_restricted_tables_merged(override, restricted_tables) ==
    IF override.some THEN restricted_tables \o override.val ELSE restricted_tables

\* x_route_restricted_tables if x_route_restricted_tables else restricted_tables
route_restricted_tables(override, restricted_tables) ==
    IF Truthy(override) THEN override.val ELSE restricted_tables

\* create_data_manager_func that does not pass the restricted tables on
create_data_manager_func_open(restricted_tables) == DataHandler(<<>>, <<>>)

\* create_data_manager_func(database, restricted_tables=...): its handler
create_data_manager_func(restricted_tables) == DataHandler(<<>>, restricted_tables)

Routes == {"create", "delete", "id", "insert", "query", "update"}

\* the keyword arguments of fastapi.APIRouter other than prefix and tags
APIRouterParams ==
    {"dependencies", "default_response_class", "responses", "callbacks", "routes",
     "redirect_slashes", "default", "dependency_overrides_provider", "route_class",
     "on_startup", "on_shutdown", "deprecated", "include_in_schema"}

\* APIRouter(prefix=prefix, tags=tags, **kwargs): a call with a keyword the
\* class does not have raises TypeError
APIRouter(kwargs) == IF kwargs \subseteq APIRouterParams THEN OK ELSE TypeError

\* get_data_router that drops the keyword arguments it does not know
router_kwargs_dropped(kwargs) == APIRouter({})

\* out = APIRouter(prefix=prefix, tags=tags, *args, **kwargs): the keyword
\* arguments get_data_router does not name are passed on
router_kwargs(kwargs) == APIRouter(kwargs)

\* the nine routes of get_data_router
AllRoutes == Routes \cup {"metadata", "metadata_update", "search"}

\* the x_route_path defaults
DefaultPaths ==
    [r \in AllRoutes |->
        CASE r \in {"create", "delete", "search"} -> "/"
          [] r = "id" -> "/{dataset}/id/{id}"
          [] r = "insert" -> "/{dataset}/insert"
          [] r \in {"metadata", "metadata_update"} -> "/{dataset}/metadata"
          [] OTHER -> "/{dataset}"]

\* the enable_x_route defaults
DefaultEnable == [r \in AllRoutes |-> TRUE]

\* registration in which the metadata flag also decides the metadata-update
\* route
register_shared_flag(enable, paths) ==
    [r \in {x \in AllRoutes : IF x = "metadata_update" THEN enable["metadata"] ELSE enable[x]}
        |-> paths[r]]

\* if enable_x_route: @out.<verb>(x_route_path, ...), for each of the routes
register(enable, paths) == [r \in {x \in AllRoutes : enable[x]} |-> paths[r]]

\* the data manager of every route, from the arguments of get_data_router;
\* overrides gives the x_route_restricted_tables argument of every route
get_data_router(restricted_tables, overrides) ==
    [r \in Routes |->
        create_data_manager_func(route_restricted_tables(overrides[r], restricted_tables))]

\* run call b (on the store a left) after call a, unless a raised
AndThen(a, b) ==
    IF a.status # OK THEN a
    ELSE Result(b.status, b.store, a.calls \o b.calls, b.result)

\* body.dict() of a DataCreate or MetadataUpdate: an absent field is None
Descriptor(title, description, source) ==
    [title |-> title, description |-> description, source |-> source]

\* create_data's metadata with the two readings of the clock exchanged
create_metadata_swapped(dataset, body, user, created_at, updated_at) ==
    LET metadata == (C_title :> body.title) @@ (C_description :> body.description)
                    @@ (C_source :> body.source) @@ (C_dataset :> dataset)
                    @@ (C_created_at :> updated_at) @@ (C_updated_at :> created_at)
    IN  IF user.some THEN (C_created_by :> user.val) @@ metadata ELSE metadata

\* the metadata create_data formats from the body, the clock and the user
create_metadata(dataset, body, user, created_at, updated_at) ==
    LET metadata == (C_title :> body.title) @@ (C_description :> body.description)
                    @@ (C_source :> body.source) @@ (C_dataset :> dataset)
                    @@ (C_created_at :> created_at) @@ (C_updated_at :> updated_at)
    IN  IF user.some THEN (C_created_by :> user.val) @@ metadata ELSE metadata

\* create_data that creates the dataset and writes no record
create_data_bare(w, store, dataset, body, data, user, created_at, updated_at) ==
    DataManager_create(w["create"], store, dataset, data)

\* created_at and updated_at are two readings of the clock
create_data(w, store, dataset, body, data, user, created_at, updated_at) ==
    LET a == DataManager_create(w["create"], store, dataset, data)
    IN  AndThen(a, MetadataManager_create(a.store, dataset,
                       Dict(create_metadata(dataset, body, user, created_at, updated_at))))

\* delete_data that leaves the record of a dropped dataset in the ledger
delete_data_keep(w, store, dataset, where, where_boolean, delete_all, dt) ==
    LET a == DataManager_delete(w["delete"], store, dataset, where, where_boolean, delete_all)
    IN  AndThen(a, MetadataManager_updated_at(a.store, dataset, dt))

\* delete_data that removes the record on every delete
delete_data_always(w, store, dataset, where, where_boolean, delete_all, dt) ==
    LET a == DataManager_delete(w["delete"], store, dataset, where, where_boolean, delete_all)
        b == AndThen(a, MetadataManager_updated_at(a.store, dataset, dt))
    IN  AndThen(b, MetadataManager_delete(b.store, dataset))

delete_data(w, store, dataset, where, where_boolean, delete_all, dt) ==
    LET a == DataManager_delete(w["delete"], store, dataset, where, where_boolean, delete_all)
        b == AndThen(a, MetadataManager_updated_at(a.store, dataset, dt))
    IN  IF delete_all THEN AndThen(b, MetadataManager_delete(b.store, dataset)) ELSE b

\* where = [f'{id_variable} = {id}']
get_data_by_id(w, store, dataset, id, id_variable) ==
    DataManager_get(w["id"], store, dataset,
                    Some(<<id_variable \o <<" ","="," ">> \o id>>), "AND")

\* insert_data that does not touch the ledger
insert_data_untouched(w, store, dataset, data, dt) ==
    DataManager_insert(w["insert"], store, dataset, data)

insert_data(w, store, dataset, data, dt) ==
    LET a == DataManager_insert(w["insert"], store, dataset, data)
    IN  AndThen(a, MetadataManager_updated_at(a.store, dataset, dt))

get_metadata(store, dataset) == MetadataManager_get(store, dataset)

update_metadata(store, dataset, body) ==
    MetadataManager_update(store, dataset,
        << <<C_title, body.title>>, <<C_description, body.description>>,
           <<C_source, body.source>> >>)

query_data(w, store, dataset, where, where_boolean) ==
    DataManager_get(w["query"], store, dataset, where, where_boolean)

search_data(store, where, where_boolean) ==
    MetadataManager_search(store, where, where_boolean)

update_data(w, store, dataset, body, where, dt) ==
    LET a == DataManager_update(w["update"], store, dataset, body, where)
    IN  AndThen(a, MetadataManager_updated_at(a.store, dataset, dt))

(***************************************************************************)
(* cli.py and core.py: the start command and the construction of DataAPI. *)
(* A dict of keyword arguments is a set of <<key, value>> pairs.           *)
(***************************************************************************)
\* a keyword-argument dict that is None, and one that is given
NoDict == [some |-> FALSE, val |-> {}]

SomeDict(d) == [some |-> TRUE, val |-> d]

\* `if d:` for a dict or None
DictTruthy(o) == o.some /\ o.val # {}

\* d.update(e)
DictUpdate(d, e) == {p \in d : \A q \in e : q[1] # p[1]} \cup e

\* the routes whose superuser requirement is on unless switched off
SuperuserRoutes == {"create", "delete", "insert", "metadata_update", "update"}

\* --disable_x_superuser (store_false) or --enable_x_superuser (store_true)
SuperuserFlag(r) ==
    IF r \in SuperuserRoutes THEN <<"disable", r>> ELSE <<"enable", r>>

EnableUsers == <<"enable", "users">>

\* the x_superuser value parse_args gives: the default of set_defaults,
\* inverted when the flag is on the command line
parse_superuser(args, r) ==
    IF SuperuserFlag(r) \in args THEN r \notin SuperuserRoutes ELSE r \in SuperuserRoutes

\* the defaults of DataAPI.__init__ for x_get_current_user_kwargs
DataAPIDefaults ==
    [r \in AllRoutes |->
        IF r \in SuperuserRoutes THEN SomeDict({<<"superuser", TRUE>>}) ELSE NoDict]

\* run, command start: the x_get_current_user_kwargs given to DataAPI, the
\* defaults of DataAPI updated with dict(superuser=...) where they are not
\* empty or None
start_kwargs(args) ==
    [r \in AllRoutes |->
        IF DictTruthy(DataAPIDefaults[r])
        THEN SomeDict(DictUpdate(DataAPIDefaults[r].val,
                                 {<<"superuser", parse_superuser(args, r)>>}))
        ELSE DataAPIDefaults[r]]

\* before DataAPI is constructed
NotStarted == [started |-> FALSE, users |-> FALSE, passed |-> [r \in AllRoutes |-> {}]]

\* DataAPI.__init__: with users enabled, each route's dependency is
\* users_app.get_current_user(**v), v the route's kwargs if they are not
\* empty or None, else get_current_user_kwargs ({} by default)
DataAPI(enable_users, kw) ==
    [started |-> TRUE, users |-> enable_users,
     passed |-> [r \in AllRoutes |->
                    IF enable_users /\ DictTruthy(kw[r]) THEN kw[r].val ELSE {}]]

(***************************************************************************)
(* Inputs of the requests.                                                 *)
(***************************************************************************)
T1 == <<"t","1">>

T2 == <<"t","2">>

ColA == <<"a">>

ColB == <<"b">>

ColC == <<"c">>

\* a data row {"a": a, "b": "x"}
Row(a) == (ColA :> a) @@ (ColB :> <<"x">>)

Values == {<<"1">>, <<"2">>}

\* row lists of a request body: one to MaxRows rows
RowLists == UNION {[1..n -> {Row(a) : a \in Values}] : n \in 1..MaxRows}

\* filter strings: "a = 1", "a != 1", "a like 1", "a = '1'", "a ~ 1", "a =",
\* "a = 1 2", "a = '1", ""
W_eq == <<"a"," ","="," ","1">>

W_ne == <<"a"," ","!","="," ","1">>

W_like == <<"a"," ","l","i","k","e"," ","1">>

W_quoted == <<"a"," ","="," ","'","1","'">>

W_badop == <<"a"," ","~"," ","1">>

W_short == <<"a"," ","=">>

W_long == <<"a"," ","="," ","1"," ","2">>

W_open == <<"a"," ","="," ","'","1">>

W_empty == <<>>

ManagerStrings == {W_eq, W_badop, W_short, W_open}

AllStrings == {W_eq, W_ne, W_like, W_quoted, W_badop, W_short, W_long, W_open, W_empty}

\* None, [] and the lists of one to max strings of S
WhereLists(S, max) == {None} \cup {Some(l) : l \in UNION {[1..n -> S] : n \in 0..max}}

\* update dicts: known columns, an unknown column, both
UpdateDicts ==
    { << <<ColA, <<"1">> >> >>, << <<ColA, <<"2">> >> >>, << <<ColC, <<"1">> >> >>,
      << <<ColA, <<"2">> >>, <<ColC, <<"1">> >> >> }

(***************************************************************************)
(* State.                                                                  *)
(***************************************************************************)
VARIABLES
    store,     \* the Database: table name -> table
    handler,   \* the DataHandler of the DataManager that is called directly
    wiring,    \* route -> the DataHandler of the route's DataManager
    last,      \* the last call: the request and its outcome
    now,       \* the wall clock (datetime.now())
    settings,  \* the arguments get_data_router was called with
    wired,     \* how the call of get_data_router ended: OK, or the error raised
    registered, \* the routes added to the APIRouter: route -> path
    argv,      \* the options on the command line of the start command
    api,       \* the DataAPI the start command constructed
    creators,  \* the create requests in progress at the same time: where each is
    objects    \* the handler objects and the managers constructed in the process

vars == <<store, handler, wiring, settings, wired, registered, last, now, argv, api, creators, objects>>

\* a request of a route: body is the descriptor, user the current user, dt
\* the last reading of the clock the request made
RouteRequest(op, dataset, data, where, where_boolean, delete_all, body, user, dt) ==
    [op |-> op, dataset |-> dataset, data |-> data, where |-> where,
     where_boolean |-> where_boolean, delete_all |-> delete_all,
     body |-> body, user |-> user, dt |-> dt]

NoBody == Descriptor(NULL, NULL, NULL)

\* a call of a DataManager method
Request(op, dataset, data, where, where_boolean, delete_all) ==
    RouteRequest(op, dataset, data, where, where_boolean, delete_all, NoBody, None, 0)

NoRequest == Request("none", <<>>, <<>>, None, "AND", FALSE)

\* the record of a call: the request, the store it found, and what the call
\* answered
Outcome(req, before, r) ==
    [req |-> req, before |-> before, status |-> r.status, calls |-> r.calls,
     result |-> r.result]

NoCall == Outcome(NoRequest, <<>>, Result(OK, <<>>, <<>>, <<>>))

\* the callers that may be inside create_data at the same time (workers of
\* the server on one Database)
Creators == 1..MaxCreators

\* where a create request is: "ready" before it starts, "checked" after the
\* guard of DataManager.create passed, "inserted" after its insert, "done"
\* when the request has its answer
Creator(at, dataset, status) == [at |-> at, dataset |-> dataset, status |-> status]

Ready == Creator("ready", <<>>, OK)

NoCreators == [p \in Creators |-> Ready]

(***************************************************************************)
(* A DataManager called directly, on a Database that holds any tables.     *)
(***************************************************************************)
ManagerNames == {T1, DEFAULT_METADATA_TABLE}

\* handlers: the default one, one without lists, the one MetadataManager
\* configures, and one with both lists
Handlers ==
    { DataHandler(<<>>, DEFAULT_RESTRICTED_TABLES),
      DataHandler(<<>>, <<>>),
      DataHandler(<<DEFAULT_METADATA_TABLE>>, <<>>),
      DataHandler(<<T1, DEFAULT_METADATA_TABLE>>, <<DEFAULT_METADATA_TABLE>>) }

NoOverrides == [r \in Routes |-> None]

\* the arguments of a call of get_data_router
Settings(enable, paths, restricted_tables, overrides) ==
    [enable |-> enable, paths |-> paths, restricted_tables |-> restricted_tables,
     overrides |-> overrides, kwargs |-> {}]

\* the same call with further keyword arguments, which get_data_router
\* collects in **kwargs
WithKwargs(s, kwargs) == [s EXCEPT !.kwargs = kwargs]

DefaultSettings == Settings(DefaultEnable, DefaultPaths, DEFAULT_RESTRICTED_TABLES, NoOverrides)

DefaultWiring == get_data_router(DEFAULT_RESTRICTED_TABLES, NoOverrides)

InitTables == {NoTable, Table({ColA, ColB}, {}, <<Row(<<"1">>)>>)}

InitDM ==
    /\ store \in [ManagerNames -> InitTables]
    /\ handler \in Handlers
    /\ wiring = DefaultWiring
    /\ settings = DefaultSettings
    /\ wired = OK
    /\ argv = {}
    /\ api = NotStarted
    /\ creators = NoCreators
    /\ objects = NoManagers
    /\ registered = register(DefaultEnable, DefaultPaths)
    /\ last = NoCall
    /\ now = 0

\* no call is in progress: the caller has taken the outcome of the last one
Idle == last = NoCall

\* the call leaves its outcome in last and the store as the manager left it
Called(req, r) ==
    /\ Idle
    /\ store' = r.store
    /\ last' = Outcome(req, store, r)
    /\ UNCHANGED <<handler, wiring, settings, wired, registered, now, argv, api, creators, objects>>

Fits(dataset, data, max) == Len(store[dataset].rows) + Len(data) <= max

DMCreate ==
    \E dataset \in ManagerNames, data \in RowLists :
        /\ Fits(dataset, data, MaxRows)
        /\ Called(Request("create", dataset, data, None, "AND", FALSE),
                  DataManager_create(handler, store, dataset, data))

DMInsert ==
    \E dataset \in ManagerNames, data \in RowLists :
        /\ Fits(dataset, data, MaxRows)
        /\ Called(Request("insert", dataset, data, None, "AND", FALSE),
                  DataManager_insert(handler, store, dataset, data))

DMDelete ==
    \E dataset \in ManagerNames, where \in WhereLists(ManagerStrings, MaxWhere),
       where_boolean \in {"AND", "OR"}, delete_all \in BOOLEAN :
        Called(Request("delete", dataset, <<>>, where, where_boolean, delete_all),
               DataManager_delete(handler, store, dataset, where, where_boolean, delete_all))

DMGet ==
    \E dataset \in ManagerNames, where \in WhereLists(ManagerStrings, MaxWhere),
       where_boolean \in {"AND", "OR"} :
        Called(Request("get", dataset, <<>>, where, where_boolean, FALSE),
               DataManager_get(handler, store, dataset, where, where_boolean))

DMGetColumns ==
    \E dataset \in ManagerNames :
        Called(Request("get_columns", dataset, <<>>, None, "AND", FALSE),
               DataManager_get_columns(handler, store, dataset))

DMGetRows ==
    \E dataset \in ManagerNames :
        Called(Request("get_rows", dataset, <<>>, None, "AND", FALSE),
               DataManager_get_rows(handler, store, dataset))

DMUpdate ==
    \E dataset \in ManagerNames, data \in UpdateDicts,
       where \in WhereLists(ManagerStrings, MaxWhere) \ {None} :
        Called(Request("update", dataset, data, where, "AND", FALSE),
               DataManager_update(handler, store, dataset, data, where))

\* the caller takes the outcome (the status, or the value returned)
Return ==
    /\ ~Idle
    /\ last' = NoCall
    /\ UNCHANGED <<store, handler, wiring, settings, wired, registered, now, argv, api, creators, objects>>

NextDM ==
    \/ Return
    \/ DMCreate
    \/ DMInsert
    \/ DMDelete
    \/ DMGet
    \/ DMGetColumns
    \/ DMGetRows
    \/ DMUpdate

SpecDM == InitDM /\ [][NextDM]_vars

(***************************************************************************)
(* The routes of get_data_router, on a Database that holds the ledger      *)
(* (MetadataManager.__init__ creates it) and no dataset yet.               *)
(***************************************************************************)
\* a dataset name with a blank in it: "my t"
T_blank == <<"m","y"," ","t">>

\* a dataset name of a request path that ends with a blank ("/t1%20/metadata")
T_padded == <<"t", "1", " ">>

RouterNames == {T1, T2, DEFAULT_METADATA_TABLE, DEFAULT_USER_TABLE}

C_email == <<"e","m","a","i","l">>

Email == <<"u">>

\* request bodies with the current user: no descriptor and no user, or a
\* full descriptor and a user
Descriptors == {Descriptor(NULL, NULL, NULL), Descriptor(<<"A">>, <<"B">>, <<"C">>)}

\* a metadata-update body that gives the title only
TitleOnly == Descriptor(<<"D">>, NULL, NULL)

UserOf(body) == IF body.title = NULL THEN None ELSE Some(Email)

RouterRows == <<Row(<<"1">>)>>

\* a where query parameter: absent, or the strings given (at least one)
RouterWheres == {None, Some(<<W_eq>>), Some(<<W_ne>>), Some(<<W_short>>)}

RouterUpdates == { << <<ColA, <<"1">> >> >>, << <<ColC, <<"1">> >> >> }

\* readings of the clock from now on
Clock == now..MaxClock

\* the dataset names of the requests: the names of the Database
Names == DOMAIN store

Init ==
    /\ store = [n \in RouterNames |->
                  CASE n = DEFAULT_METADATA_TABLE -> EmptyLedger
                    [] n = DEFAULT_USER_TABLE -> Table({C_email}, {}, <<>>)
                    [] OTHER -> NoTable]
    /\ handler = DataHandler(<<>>, DEFAULT_RESTRICTED_TABLES)
    /\ wiring = DefaultWiring
    /\ settings = DefaultSettings
    /\ wired = OK
    /\ argv = {}
    /\ api = NotStarted
    /\ creators = NoCreators
    /\ objects = NoManagers
    /\ registered = register(DefaultEnable, DefaultPaths)
    /\ last = NoCall
    /\ now = 0

\* a request to a registered route ends: its outcome is in last, the clock is
\* at its last reading
Served(req, r) ==
    /\ Idle
    /\ req.op \in DOMAIN registered
    /\ store' = r.store
    /\ last' = Outcome(req, store, r)
    /\ now' = req.dt
    /\ UNCHANGED <<handler, wiring, settings, wired, registered, argv, api, creators, objects>>

CreateData ==
    \E dataset \in Names, body \in Descriptors, created_at \in Clock :
        \E updated_at \in created_at..MaxClock :
            Served(RouteRequest("create", dataset, RouterRows, None, "AND", FALSE,
                                body, UserOf(body), updated_at),
                   create_data(wiring, store, dataset, body, RouterRows, UserOf(body),
                               created_at, updated_at))

DeleteData ==
    \E dataset \in Names, where \in RouterWheres, delete_all \in BOOLEAN,
       dt \in Clock :
        Served(RouteRequest("delete", dataset, <<>>, where, "AND", delete_all,
                            NoBody, None, dt),
               delete_data(wiring, store, dataset, where, "AND", delete_all, dt))

GetDataById ==
    \E dataset \in Names, id \in {<<"1">>}, id_variable \in {ColA, ColC} :
        Served(RouteRequest("id", dataset, <<>>, Some(<<id_variable, id>>), "AND", FALSE,
                            NoBody, None, now),
               get_data_by_id(wiring, store, dataset, id, id_variable))

InsertData ==
    \E dataset \in Names, dt \in Clock :
        /\ Fits(dataset, RouterRows, MaxDatasetRows)
        /\ Served(RouteRequest("insert", dataset, RouterRows, None, "AND", FALSE,
                               NoBody, None, dt),
                  insert_data(wiring, store, dataset, RouterRows, dt))

GetMetadata ==
    \E dataset \in Names :
        Served(RouteRequest("metadata", dataset, <<>>, None, "AND", FALSE,
                            NoBody, None, now),
               get_metadata(store, dataset))

\* the dataset of the path is any string: a name of the Store, or the name of
\* a dataset followed by a blank
UpdateMetadata ==
    \E dataset \in Names \cup {T_padded}, body \in Descriptors \cup {TitleOnly} :
        Served(RouteRequest("metadata_update", dataset, <<>>, None, "AND", FALSE,
                            body, None, now),
               update_metadata(store, dataset, body))

QueryData ==
    \E dataset \in Names, where \in RouterWheres :
        Served(RouteRequest("query", dataset, <<>>, where, "AND", FALSE,
                            NoBody, None, now),
               query_data(wiring, store, dataset, where, "AND"))

SearchData ==
    \E where \in {None, Some(<<DatasetFilter(T1)>>), Some(<<W_short>>)} :
        Served(RouteRequest("search", <<>>, <<>>, where, "AND", FALSE,
                            NoBody, None, now),
               search_data(store, where, "AND"))

UpdateData ==
    \E dataset \in Names, body \in RouterUpdates,
       where \in RouterWheres \ {None}, dt \in Clock :
        Served(RouteRequest("update", dataset, body, where, "AND", FALSE,
                            NoBody, None, dt),
               update_data(wiring, store, dataset, body, where, dt))

Next ==
    \/ Return
    \/ CreateData
    \/ DeleteData
    \/ GetDataById
    \/ InsertData
    \/ GetMetadata
    \/ UpdateMetadata
    \/ QueryData
    \/ SearchData
    \/ UpdateData

Spec == Init /\ [][Next]_vars

(***************************************************************************)
(* Validation of filter lists: DataManager.get on one dataset, for every   *)
(* list of filter strings.                                                 *)
(***************************************************************************)
(***************************************************************************)
(* get_data_router called with arguments other than the defaults, on a     *)
(* Database that holds one dataset and its record.                         *)
(***************************************************************************)
\* enable flags: all routes, all but one, one only, none
EnableChoices ==
    {DefaultEnable, [x \in AllRoutes |-> FALSE]}
    \cup {[DefaultEnable EXCEPT ![r] = FALSE] : r \in AllRoutes}
    \cup {[x \in AllRoutes |-> x = r] : r \in AllRoutes}

\* x_route_restricted_tables: None for every route, or a list for one route
OverrideChoices ==
    {NoOverrides}
    \cup {[NoOverrides EXCEPT ![r] = o] : r \in Routes, o \in {Some(<<>>), Some(<<T2>>)}}

\* further keyword arguments: a misspelt argument of get_data_router, an
\* argument of APIRouter, both
KwargsChoices == {{"creat_route_path"}, {"deprecated"}, {"creat_route_path", "deprecated"}}

WiringChoices ==
    {Settings(e, DefaultPaths, DEFAULT_RESTRICTED_TABLES, NoOverrides) : e \in EnableChoices}
    \cup {Settings(DefaultEnable, DefaultPaths, DEFAULT_RESTRICTED_TABLES, o) :
            o \in OverrideChoices}
    \cup {Settings(DefaultEnable, [DefaultPaths EXCEPT !["create"] = "/new"],
                   DEFAULT_RESTRICTED_TABLES, NoOverrides)}
    \cup {WithKwargs(DefaultSettings, k) : k \in KwargsChoices}

\* the Database after one create request for T1 on the empty ledger
OneDataset ==
    create_data(DefaultWiring,
                [n \in RouterNames |->
                    CASE n = DEFAULT_METADATA_TABLE -> EmptyLedger
                      [] n = DEFAULT_USER_TABLE -> Table({C_email}, {}, <<>>)
                      [] OTHER -> NoTable],
                T1, NoBody, RouterRows, None, 0, 0).store

InitWiring ==
    /\ settings \in WiringChoices
    /\ wiring = get_data_router(settings.restricted_tables, settings.overrides)
    /\ wired = router_kwargs(settings.kwargs)
    /\ argv = {}
    /\ api = NotStarted
    /\ creators = NoCreators
    /\ objects = NoManagers
    /\ registered = IF wired = OK THEN register(settings.enable, settings.paths) ELSE <<>>
    /\ store = OneDataset
    /\ handler = DataHandler(<<>>, DEFAULT_RESTRICTED_TABLES)
    /\ last = NoCall
    /\ now = MaxClock

SpecWiring == InitWiring /\ [][Next]_vars

(***************************************************************************)
(* Create requests served at the same time on one Database.  A request is  *)
(* suspended at its Store calls only, so its steps are the guard's lookup, *)
(* the data insert and the metadata insert.                                *)
(***************************************************************************)
InRace(p, c, s) ==
    /\ creators' = [creators EXCEPT ![p] = c]
    /\ store' = s
    /\ UNCHANGED <<handler, wiring, settings, wired, registered, last, now, argv, api, objects>>

\* data_manager.create up to the insert
CreateGuard(p) ==
    /\ creators[p].at = "ready"
    /\ \E dataset \in Names :
           LET g == DataManager_create_guard(wiring["create"], store, dataset)
           IN  InRace(p, Creator(IF g.status = OK THEN "checked" ELSE "done",
                                 dataset, g.status), store)

\* self.database.insert(dataset, data) of data_manager.create
CreateInsert(p) ==
    /\ creators[p].at = "checked"
    /\ LET r == DataManager_create_insert(store, creators[p].dataset, RouterRows)
       IN  InRace(p, Creator(IF r.status = OK THEN "inserted" ELSE "done",
                             creators[p].dataset, r.status), r.store)

\* metadata_manager.create(dataset=dataset, data=metadata)
CreateRecord(p) ==
    /\ creators[p].at = "inserted"
    /\ LET r == MetadataManager_create(store, creators[p].dataset,
                    Dict(create_metadata(creators[p].dataset, NoBody, None, now, now)))
       IN  InRace(p, Creator("done", creators[p].dataset, r.status), r.store)

\* the request is answered
CreateRespond(p) ==
    /\ creators[p].at = "done"
    /\ InRace(p, Ready, store)

NextRace ==
    \/ \E p \in Creators : CreateGuard(p)
    \/ \E p \in Creators : CreateInsert(p)
    \/ \E p \in Creators : CreateRecord(p)
    \/ \E p \in Creators : CreateRespond(p)

SpecRace == Init /\ [][NextRace]_vars

(***************************************************************************)
(* The routes on a Database whose one dataset has a name with a blank in   *)
(* it (the dataset of a request is any string).                            *)
(***************************************************************************)
(***************************************************************************)
(* The managers a process constructs, in any order: DataManagers with the  *)
(* default handler, DataManagers with a handler of their own               *)
(* (create_data_manager_func) and MetadataManagers.                        *)
(***************************************************************************)
Constructed(o) ==
    /\ Len(o.managers) <= MaxManagers
    /\ objects' = o
    /\ UNCHANGED <<store, handler, wiring, settings, wired, registered, last, now, argv,
                   api, creators>>

\* DataManager() or DataManager(database=database)
NewDataManager == Constructed(DataManager_init(objects, 1))

\* create_data_manager_func(database, restricted_tables=...)
NewRouteManager ==
    \E restricted_tables \in {DEFAULT_RESTRICTED_TABLES, <<T2>>} :
        LET o == DataHandler_init(objects, <<>>, restricted_tables)
        IN  Constructed(DataManager_init(o, Len(o.handlers)))

\* MetadataManager(data_manager=dm) for a DataManager dm constructed before
NewMetadataManager ==
    \E dm \in 1..Len(objects.managers) :
        /\ objects.managers[dm].wraps = 0
        /\ Constructed(MetadataManager_init(objects, dm))

\* create_metadata_manager_func(database): a DataManager with the default
\* handler, and a MetadataManager over it
NewLedgerManager ==
    LET o == DataManager_init(objects, 1)
    IN  Constructed(MetadataManager_init(o, Len(o.managers)))

NextObjects ==
    \/ NewDataManager
    \/ NewRouteManager
    \/ NewMetadataManager
    \/ NewLedgerManager

SpecObjects == Init /\ [][NextObjects]_vars

InitBlank ==
    /\ store = [n \in {T_blank, DEFAULT_METADATA_TABLE, DEFAULT_USER_TABLE} |->
                  CASE n = DEFAULT_METADATA_TABLE -> EmptyLedger
                    [] n = DEFAULT_USER_TABLE -> Table({C_email}, {}, <<>>)
                    [] OTHER -> NoTable]
    /\ handler = DataHandler(<<>>, DEFAULT_RESTRICTED_TABLES)
    /\ wiring = DefaultWiring
    /\ settings = DefaultSettings
    /\ wired = OK
    /\ argv = {}
    /\ api = NotStarted
    /\ creators = NoCreators
    /\ objects = NoManagers
    /\ registered = register(DefaultEnable, DefaultPaths)
    /\ last = NoCall
    /\ now = 0

SpecBlank == InitBlank /\ [][Next]_vars

(***************************************************************************)
(* A MetadataManager called directly, on the ledger its constructor        *)
(* creates.                                                                *)
(***************************************************************************)
LedgerNames == {T1, T2, T_blank}

\* descriptors: without a dataset key, and with the dataset key of another
\* dataset
LedgerDicts == {(C_title :> <<"A">>), (C_title :> <<"A">>) @@ (C_dataset :> T2)}

\* the data argument of create: a list of one or two dicts
LedgerLists == {<<d>> : d \in LedgerDicts} \cup {<<d, e>> : d \in LedgerDicts, e \in LedgerDicts}

InitLedger ==
    /\ store = [n \in {DEFAULT_METADATA_TABLE} |-> EmptyLedger]
    /\ handler = MetadataHandler
    /\ wiring = DefaultWiring
    /\ settings = DefaultSettings
    /\ wired = OK
    /\ argv = {}
    /\ api = NotStarted
    /\ creators = NoCreators
    /\ objects = NoManagers
    /\ registered = register(DefaultEnable, DefaultPaths)
    /\ last = NoCall
    /\ now = 0

\* the call leaves its outcome in last; the clock is at the reading it made
LedgerCalled(req, r) ==
    /\ Idle
    /\ store' = r.store
    /\ last' = Outcome(req, store, r)
    /\ now' = req.dt
    /\ UNCHANGED <<handler, wiring, settings, wired, registered, argv, api, creators, objects>>

LedgerRequest(op, dataset, data, dt) ==
    RouteRequest(op, dataset, data, None, "AND", FALSE, NoBody, None, dt)

\* data is a dict or a list of dicts
MMCreate ==
    \E dataset \in LedgerNames :
        \/ \E d \in LedgerDicts :
              /\ Len(store[DEFAULT_METADATA_TABLE].rows) + 1 <= MaxRecords
              /\ LedgerCalled(LedgerRequest("create", dataset, Dict(d), now),
                              MetadataManager_create(store, dataset, Dict(d)))
        \/ \E l \in LedgerLists :
              /\ Len(store[DEFAULT_METADATA_TABLE].rows) + Len(l) <= MaxRecords
              /\ LedgerCalled(LedgerRequest("create", dataset, List(l), now),
                              MetadataManager_create(store, dataset, List(l)))

MMDelete ==
    \E dataset \in LedgerNames :
        LedgerCalled(LedgerRequest("delete", dataset, <<>>, now),
                     MetadataManager_delete(store, dataset))

MMGet ==
    \E dataset \in LedgerNames :
        LedgerCalled(LedgerRequest("get", dataset, <<>>, now),
                     MetadataManager_get(store, dataset))

MMSearch ==
    \E where \in {None, Some(<<DatasetFilter(T1)>>)} :
        LedgerCalled(RouteRequest("search", <<>>, <<>>, where, "AND", FALSE, NoBody, None, now),
                     MetadataManager_search(store, where, "AND"))

MMUpdate ==
    \E dataset \in LedgerNames, data \in {<< <<C_title, <<"B">> >> >>} :
        LedgerCalled(LedgerRequest("update", dataset, data, now),
                     MetadataManager_update(store, dataset, data))

\* dt is the argument given, or the reading of the clock
MMUpdatedAt ==
    \E dataset \in LedgerNames, dt \in Clock :
        LedgerCalled(LedgerRequest("updated_at", dataset, <<>>, dt),
                     MetadataManager_updated_at(store, dataset, dt))

NextLedger ==
    \/ Return
    \/ MMCreate
    \/ MMDelete
    \/ MMGet
    \/ MMSearch
    \/ MMUpdate
    \/ MMUpdatedAt

SpecLedger == InitLedger /\ [][NextLedger]_vars

(***************************************************************************)
(* The start command, with any of its superuser options and --enable_users *)
(* on the command line.                                                    *)
(***************************************************************************)
StartOptions == {SuperuserFlag(r) : r \in AllRoutes} \cup {EnableUsers}

InitStart ==
    /\ argv \in SUBSET StartOptions
    /\ api = NotStarted
    /\ creators = NoCreators
    /\ objects = NoManagers
    /\ store = [n \in RouterNames |->
                  CASE n = DEFAULT_METADATA_TABLE -> EmptyLedger
                    [] n = DEFAULT_USER_TABLE -> Table({C_email}, {}, <<>>)
                    [] OTHER -> NoTable]
    /\ handler = DataHandler(<<>>, DEFAULT_RESTRICTED_TABLES)
    /\ wiring = DefaultWiring
    /\ settings = DefaultSettings
    /\ wired = OK
    /\ registered = register(DefaultEnable, DefaultPaths)
    /\ last = NoCall
    /\ now = 0

\* run with command start: app = DataAPI(**kwargs)
Start ==
    /\ ~api.started
    /\ api' = DataAPI(EnableUsers \in argv, start_kwargs(argv))
    /\ UNCHANGED <<store, handler, wiring, settings, wired, registered, last, now, argv, creators, objects>>

NextStart == Start

SpecStart == InitStart /\ [][NextStart]_vars

InitWhere ==
    /\ store = [n \in ManagerNames |-> Table({ColA, ColB}, {}, <<Row(<<"1">>), Row(<<"2">>)>>)]
    /\ handler = DataHandler(<<>>, <<>>)
    /\ wiring = DefaultWiring
    /\ settings = DefaultSettings
    /\ wired = OK
    /\ argv = {}
    /\ api = NotStarted
    /\ creators = NoCreators
    /\ objects = NoManagers
    /\ registered = register(DefaultEnable, DefaultPaths)
    /\ last = NoCall
    /\ now = 0

WhereGet ==
    \E where \in WhereLists(AllStrings, MaxFilters), where_boolean \in {"AND", "OR"} :
        Called(Request("get", T1, <<>>, where, where_boolean, FALSE),
               DataManager_get(handler, store, T1, where, where_boolean))

NextWhere ==
    \/ Return
    \/ WhereGet

SpecWhere == InitWhere /\ [][NextWhere]_vars

(***************************************************************************)
(* Properties.                                                             *)
(***************************************************************************)
\* the dataset of the last call passes the restriction and permission checks
Allowed ==
    /\ handle_restrictions(handler, last.req.dataset).status = OK
    /\ handle_permissions(handler, last.req.dataset).status = OK

Forbidden == last.status.code = 401

NotFound == last.status = HTTPException(404, "not_found", <<>>)

AlreadyExists == last.status = HTTPException(400, "exists", <<>>)

MissingFilter == last.status = HTTPException(400, "where_required", <<>>)

MalformedFilter == last.status = HTTPException(400, "where_format", <<>>)

UnknownColumn == last.status.code = 400 /\ last.status.detail = "column"

\* the last call issued the Store call fn
Issued(fn) == \E i \in 1..Len(last.calls) : last.calls[i].fn = fn

\* the rows of the ledger, and the positions of the records of a dataset
Ledger(s) == s[DEFAULT_METADATA_TABLE].rows

RecordsOf(s, dataset) == {i \in 1..Len(Ledger(s)) : Ledger(s)[i][C_dataset] = dataset}

\* C1: every DataManager operation on a name of the guard's restricted list
\* fails with Forbidden (401) without any Store call, whether or not the
\* table exists.
C1_RestrictedIsForbidden ==
    (last.req.op \in {"create", "insert", "get", "update", "delete", "get_columns", "get_rows"}
        /\ In(last.req.dataset, handler.restricted_tables))
    => (Forbidden /\ last.calls = <<>> /\ store = last.before)

\* C2: create of an allowed, absent dataset succeeds, a get without filter
\* then returns exactly the rows created, and a create of a dataset that
\* exists fails with AlreadyExists and changes nothing.
C2_CreateGetRoundTrip ==
    (last.req.op = "create" /\ Allowed) =>
        IF has_table(last.before, last.req.dataset)
        THEN AlreadyExists /\ store = last.before
        ELSE /\ last.status = OK
             /\ LET got == DataManager_get(handler, store, last.req.dataset, None, "AND")
                IN  got.status = OK /\ got.result = last.req.data
             /\ \A data \in RowLists :
                    LET again == DataManager_create(handler, store, last.req.dataset, data)
                    IN  /\ again.status = HTTPException(400, "exists", <<>>)
                        /\ again.store = store

C2_Created ==
    /\ last.req.op = "create"
    /\ last.status = OK
    /\ ~has_table(last.before, last.req.dataset)
    /\ store[last.req.dataset].rows = last.req.data

\* C3: insert, get, update, delete, get_columns and get_rows on an allowed
\* name whose table is absent fail with NotFound (404) and create nothing.
C3_AbsentIsNotFound ==
    (last.req.op \in {"insert", "get", "update", "delete", "get_columns", "get_rows"}
        /\ Allowed /\ ~has_table(last.before, last.req.dataset))
    => (NotFound /\ store = last.before)

\* C4: delete without delete_all on an allowed, existing dataset, with a
\* where list that is absent or empty, fails with MissingFilter (400) and
\* removes no row.
C4_DeleteNeedsFilter ==
    (last.req.op = "delete" /\ ~last.req.delete_all /\ ~Truthy(last.req.where)
        /\ Allowed /\ has_table(last.before, last.req.dataset))
    => (MissingFilter /\ store = last.before)

\* C8: update of an existing dataset with a key that is no column issues no
\* Store update and changes no row; once the restriction, permission and
\* filter checks pass, it fails with UnknownColumn (400).
C8_UnknownColumnRejected ==
    (last.req.op = "update" /\ has_table(last.before, last.req.dataset)
        /\ ~(Range(Keys(last.req.data)) \subseteq last.before[last.req.dataset].cols))
    => /\ last.status # OK
       /\ ~Issued("update")
       /\ store = last.before
       /\ (Allowed /\ ~SplitRaises(last.req.where.val)
             /\ handle_where(Some(SplitEach(last.req.where.val))).status = OK)
          => UnknownColumn

C8_Rejected ==
    /\ last.req.op = "update"
    /\ UnknownColumn
    /\ last.status.arg = ColC
    /\ last.before[last.req.dataset].rows # <<>>

\* C9: update with an empty where list is rejected and changes no row.
C9_UpdateNeedsFilter ==
    (last.req.op = "update" /\ last.req.where.some /\ last.req.where.val = <<>>)
    => (last.status # OK /\ store = last.before)

\* the select call the last get handed to the Store carried the clauses w
HandedToStore(w) ==
    /\ last.calls # <<>>
    /\ last.calls[Len(last.calls)] = Call("select", last.req.dataset, w)

\* C10: a filter list with a string that does not split into exactly three
\* tokens fails with MalformedFilter; else one with an operator outside the
\* supported set (compared in upper case) fails with UnsupportedOperator
\* naming it; else the clauses handed to the Store are the token triples of
\* the strings, in order; None and [] are accepted and mean no filter.
C10_FilterValidation ==
    (last.req.op = "get" /\ Allowed /\ has_table(last.before, last.req.dataset)) =>
        LET where == last.req.where
            ok3(x) == split(x).ok /\ Len(split(x).tokens) = 3
            supported(x) == In(Upper(split(x).tokens[2]), DEFAULT_SUPPORTED_OPERATORS)
        IN  IF ~Truthy(where)
            THEN /\ last.status = OK
                 /\ HandedToStore(where)
                 /\ last.result = last.before[last.req.dataset].rows
            ELSE IF \E i \in 1..Len(where.val) : ~ok3(where.val[i])
            THEN MalformedFilter
            ELSE IF \E i \in 1..Len(where.val) : ~supported(where.val[i])
            THEN /\ last.status.code = 400
                 /\ last.status.detail = "operator"
                 /\ \E i \in 1..Len(where.val) :
                        ~supported(where.val[i]) /\ last.status.arg = split(where.val[i]).tokens[2]
            ELSE /\ last.status = OK
                 /\ HandedToStore(Some([i \in 1..Len(where.val) |-> split(where.val[i]).tokens]))

Datasets == RouterNames \ {DEFAULT_METADATA_TABLE, DEFAULT_USER_TABLE}

Touched == {last.calls[i].table : i \in 1..Len(last.calls)}

\* C12: with the default wiring, a create, insert, query, id, update or
\* delete request on the ledger or the identity table makes no Store call at
\* all, so the only calls of such a route on the ledger are those of the
\* MetadataManager for the request's own dataset; the MetadataManager's
\* calls are on the ledger only, and its guard answers Forbidden (401) for
\* every other table name.
C12_LedgerKeptApart ==
    /\ (last.req.op \in Routes /\ In(last.req.dataset, DEFAULT_RESTRICTED_TABLES))
           => (last.calls = <<>> /\ store = last.before)
    /\ last.req.op \in Routes
           => Touched \subseteq {last.req.dataset, DEFAULT_METADATA_TABLE}
    /\ last.req.op \in {"metadata", "metadata_update", "search"}
           => Touched \subseteq {DEFAULT_METADATA_TABLE}
    /\ \A n \in RouterNames :
           LET g == Then(handle_restrictions(MetadataHandler, n),
                         handle_permissions(MetadataHandler, n))
           IN  IF n = DEFAULT_METADATA_TABLE THEN g.status = OK ELSE g.status.code = 401

C12_LedgerRefused ==
    /\ last.req.op = "delete"
    /\ last.req.delete_all
    /\ last.req.dataset = DEFAULT_METADATA_TABLE
    /\ Forbidden
    /\ Ledger(last.before) # <<>>
    /\ store = last.before

\* the last call got as far as the permission check: its filter strings
\* tokenised and its dataset is not restricted
PermissionChecked ==
    /\ last.req.op # "none"
    /\ Truthy(last.req.where) => ~SplitRaises(last.req.where.val)
    /\ handle_restrictions(handler, last.req.dataset).status = OK

\* C13: the permission check answers Forbidden (401) exactly when the
\* permitted list is not empty and the dataset is not in it; with an empty
\* permitted list it refuses no name.
C13_PermissionCheck ==
    /\ \A n \in ManagerNames \cup {T2} :
           (handle_permissions(handler, n).status # OK)
           <=> (handler.permitted_tables # <<>> /\ ~In(n, handler.permitted_tables))
    /\ PermissionChecked =>
           IF handler.permitted_tables # <<>>
                /\ ~In(last.req.dataset, handler.permitted_tables)
           THEN last.status = HTTPException(401, "permitted", <<>>) /\ last.calls = <<>>
           ELSE ~Forbidden

C13_NotPermitted ==
    /\ PermissionChecked
    /\ last.req.dataset = T1
    /\ handler.permitted_tables = <<DEFAULT_METADATA_TABLE>>
    /\ last.status = HTTPException(401, "permitted", <<>>)
    /\ has_table(store, T1)

\* the enable flags with one route switched off
AllBut(r) == [DefaultEnable EXCEPT ![r] = FALSE]

\* C14: in a router that was wired, a route is registered exactly when its
\* own enable flag is set; with
\* only the create flag off, create is not registered and every other route
\* is, under its default path and with the default restricted tables; no
\* request is ever served by a route whose flag is off.
C14_EnableFlags ==
    /\ wired = OK => DOMAIN registered = {r \in AllRoutes : settings.enable[r]}
    /\ \A r \in DOMAIN registered : registered[r] = settings.paths[r]
    /\ settings = Settings(AllBut("create"), DefaultPaths, DEFAULT_RESTRICTED_TABLES, NoOverrides)
           => /\ DOMAIN registered = AllRoutes \ {"create"}
              /\ \A r \in AllRoutes \ {"create"} : registered[r] = DefaultPaths[r]
              /\ \A r \in Routes \ {"create"} :
                     wiring[r] = DataHandler(<<>>, DEFAULT_RESTRICTED_TABLES)
    /\ last.req.op # "none" => settings.enable[last.req.op]

C14_CreateOff ==
    /\ settings.enable = AllBut("create")
    /\ "create" \notin DOMAIN registered
    /\ last.req.op = "delete"
    /\ last.req.delete_all
    /\ last.status = OK
    /\ ~has_table(store, T1)

\* the route of the last request was given a restricted-table list of its own
Overridden == last.req.op \in Routes /\ settings.overrides[last.req.op].some

\* C15: a route given a restricted-table list of its own restricts the
\* default tables and the tables of its list together: the ledger and the
\* identity table stay refused on that route.
C15_OverrideMerged ==
    /\ \A r \in Routes :
           settings.overrides[r].some =>
               Range(wiring[r].restricted_tables)
                   = Range(settings.restricted_tables) \cup Range(settings.overrides[r].val)
    /\ (Overridden /\ In(last.req.dataset, settings.restricted_tables))
           => (Forbidden /\ store = last.before)

\* C15 as the code has it: a route given a non-empty list restricts the
\* tables of that list and no other, so the ledger and the identity table
\* are open on that route unless the list names them; a route given None or
\* an empty list restricts the tables of restricted_tables.
C15_OverrideReplaces ==
    /\ \A r \in Routes :
           wiring[r].restricted_tables
               = IF settings.overrides[r].some /\ settings.overrides[r].val # <<>>
                 THEN settings.overrides[r].val
                 ELSE settings.restricted_tables
    /\ Overridden =>
           LET own == settings.overrides[last.req.op].val
               resolved == IF own # <<>> THEN own ELSE settings.restricted_tables
           IN  IF In(last.req.dataset, resolved)
               THEN last.calls = <<>> /\ store = last.before
               ELSE ~Forbidden

C15_LedgerDropped ==
    /\ last.req.op = "delete"
    /\ settings.overrides["delete"] = Some(<<T2>>)
    /\ last.req.dataset = DEFAULT_METADATA_TABLE
    /\ has_table(last.before, DEFAULT_METADATA_TABLE)
    /\ ~has_table(store, DEFAULT_METADATA_TABLE)

\* C16: a call of get_data_router with a keyword that neither it nor the
\* APIRouter knows raises at once: no route is registered and no request is
\* ever served; a call with known keywords only is wired, and no request
\* ends with that error.
C16_UnknownSettingRejected ==
    /\ IF settings.kwargs \subseteq APIRouterParams
       THEN wired = OK /\ DOMAIN registered = {r \in AllRoutes : settings.enable[r]}
       ELSE wired = TypeError /\ DOMAIN registered = {} /\ last = NoCall
    /\ last.status # TypeError

C16_Misspelt ==
    /\ settings.kwargs = {"creat_route_path"}
    /\ wired = TypeError
    /\ DOMAIN registered = {}
    /\ has_table(store, T1)

\* the ledger s2 is the ledger s1 with updated_at of the records of dataset
\* set to dt, and nothing else changed
Refreshed(s1, s2, dataset, dt) ==
    /\ Len(Ledger(s2)) = Len(Ledger(s1))
    /\ \A i \in 1..Len(Ledger(s1)) :
           Ledger(s2)[i] = IF Ledger(s1)[i][C_dataset] = dataset
                           THEN [Ledger(s1)[i] EXCEPT ![C_updated_at] = dt]
                           ELSE Ledger(s1)[i]

\* C17: MetadataManager.updated_at called twice in a row on a dataset raises
\* neither time, changes nothing but updated_at of the dataset's record, and
\* leaves updated_at at the instant of the second call, which is not before
\* the first.
C17_TouchTwice ==
    last.req.op = "updated_at" =>
        /\ last.status = OK
        /\ Refreshed(last.before, store, last.req.dataset, last.req.dt)
        /\ \A dt \in Clock :
               LET second == MetadataManager_updated_at(store, last.req.dataset, dt)
               IN  /\ second.status = OK
                   /\ Refreshed(store, second.store, last.req.dataset, dt)
                   /\ last.req.dt <= dt

\* the records the last call appended to the ledger
Inserted == {i \in 1..Len(Ledger(store)) : i > Len(Ledger(last.before))}

\* C18: every record MetadataManager.create inserts has the dataset argument
\* in its dataset field, whatever the data carries, for a dict and for a list
\* of dicts.
C18_DatasetForced ==
    (last.req.op = "create" /\ last.status = OK) =>
        /\ Inserted # {}
        /\ \A i \in Inserted : Ledger(store)[i][C_dataset] = last.req.dataset

\* the superuser requirement the dependency of route r was built with: the
\* collaborator requires none when it is given no superuser argument
Required(r) == <<"superuser", TRUE>> \in api.passed[r]

\* C19: the API the start command builds with users enabled asks for a
\* superuser on create, delete, insert, metadata_update and update unless
\* the route's --disable_x_superuser option is given, and on id, metadata,
\* query and search exactly when the route's --enable_x_superuser option is
\* given.
C19_SuperuserFromCommandLine ==
    (api.started /\ api.users) =>
        \A r \in AllRoutes :
            Required(r) <=> IF r \in SuperuserRoutes
                            THEN SuperuserFlag(r) \notin argv
                            ELSE SuperuserFlag(r) \in argv

\* the columns a metadata-update request may change
DescriptorColumns == {C_title, C_description, C_source}

\* C20: a metadata-update request changes nothing but the title, description
\* and source of the ledger record whose dataset is the request's dataset:
\* that record's other columns, the records of every other dataset and every
\* other table are as before.
C20_OnlyDescriptorChanged ==
    last.req.op = "metadata_update" =>
        /\ \A n \in DOMAIN store : n # DEFAULT_METADATA_TABLE => store[n] = last.before[n]
        /\ Len(Ledger(store)) = Len(Ledger(last.before))
        /\ \A i \in 1..Len(Ledger(last.before)) :
               /\ Ledger(last.before)[i][C_dataset] # last.req.dataset
                      => Ledger(store)[i] = Ledger(last.before)[i]
               /\ \A c \in DEFAULT_METADATA_COLUMNS \ DescriptorColumns :
                      Ledger(store)[i][c] = Ledger(last.before)[i][c]

\* C22: a create request that passed the guard goes on to Store.insert
\* whatever the other requests did meanwhile, the dataset existing by then
\* included: nothing in the core keeps two requests for the same absent
\* dataset from both passing the guard before either insert.
C22_BothProceed ==
    \A p \in Creators :
        creators[p].at = "checked" =>
            DataManager_create_insert(store, creators[p].dataset, RouterRows).calls
                = <<Call("insert", creators[p].dataset, None)>>

\* two requests for the same absent dataset have both passed the guard and
\* neither has inserted yet
C22_BothPassed ==
    \E p, q \in Creators :
        /\ p # q
        /\ creators[p].at = "checked" /\ creators[q].at = "checked"
        /\ creators[p].dataset = creators[q].dataset
        /\ ~has_table(store, creators[p].dataset)

\* both requests then issued their insert: the dataset holds the rows of both
C22_BothInserted ==
    \E p, q \in Creators :
        /\ p # q
        /\ creators[p].at = "inserted" /\ creators[q].at = "inserted"
        /\ creators[p].dataset = creators[q].dataset
        /\ Len(store[creators[p].dataset].rows) = 2 * Len(RouterRows)

\* the data insert of a create request returned and the metadata insert that
\* followed it failed
SecondWriteFailed ==
    /\ last.req.op = "create"
    /\ last.status # OK
    /\ \E i \in 1..(Len(last.calls) - 1) :
           last.calls[i] = Call("insert", last.req.dataset, None)

\* C21: when the data insert of a create request succeeds and the metadata
\* insert then fails, the dataset is in the Store afterwards, the ledger has
\* no record of it, and the request answers with the failure.
C21_NoRollback ==
    SecondWriteFailed =>
        /\ has_table(store, last.req.dataset)
        /\ ~has_table(last.before, last.req.dataset)
        /\ RecordsOf(store, last.req.dataset) = {}
        /\ last.status.code # 200

\* the token lists of the filter of the last call
LastTokens == SplitEach(last.req.where.val)

\* C23: when a call of a DataManager violates several checks, the error is
\* that of the first in the order restriction, permission, existence
\* (AlreadyExists for create, NotFound otherwise), missing filter (delete),
\* malformed filter, unsupported operator, unknown column (update), and the
\* Store calls made are those of the checks up to that one only.
C23_Precedence ==
    last.req.op \in {"create", "insert", "get", "update", "delete", "get_columns", "get_rows"} =>
        LET op == last.req.op
            d == last.req.dataset
            filtered == op \in {"get", "update", "delete"} /\ Truthy(last.req.where)
            looked == <<Call("has_table", d, None)>>
            malformed == filtered /\ \E i \in 1..Len(LastTokens) : Len(LastTokens[i]) # 3
        IN  CASE In(d, handler.restricted_tables) ->
                   last.status = HTTPException(401, "restricted", <<>>) /\ last.calls = <<>>
              [] Len(handler.permitted_tables) > 0 /\ ~In(d, handler.permitted_tables) ->
                   last.status = HTTPException(401, "permitted", <<>>) /\ last.calls = <<>>
              [] op = "create" /\ has_table(last.before, d) ->
                   AlreadyExists /\ last.calls = looked
              [] op # "create" /\ ~has_table(last.before, d) ->
                   NotFound /\ last.calls = looked
              [] op = "delete" /\ ~last.req.delete_all /\ ~last.req.where.some ->
                   MissingFilter /\ last.calls = looked
              [] malformed ->
                   MalformedFilter /\ last.calls = looked
              [] filtered /\ \E i \in 1..Len(LastTokens) :
                                 ~In(Upper(LastTokens[i][2]), DEFAULT_SUPPORTED_OPERATORS) ->
                   last.status.detail = "operator" /\ last.calls = looked
              [] op = "update" /\ \E i \in 1..Len(last.req.data) :
                                      last.req.data[i][1] \notin last.before[d].cols ->
                   UnknownColumn /\ last.calls = looked \o <<Call("_get_table", d, None)>>
              [] OTHER -> TRUE

\* the last call was refused by a check of the guard
Refused == last.status.code \in {400, 401, 404}

\* C24: a DataManager operation that fails with an error of the guard leaves
\* every table of the Store, the ledger included, as it was before the
\* call.
C24_RefusalChangesNothing ==
    (last.req.op \in {"create", "insert", "get", "update", "delete", "get_columns", "get_rows"}
        /\ Refused)
    => store = last.before

\* a delete without filter and without delete_all was refused on a table
\* that has rows
C24_RefusedWithRows ==
    /\ last.req.op = "delete"
    /\ MissingFilter
    /\ has_table(last.before, last.req.dataset)
    /\ Len(last.before[last.req.dataset].rows) > 0

\* a delete with delete_all of a table that exists and that the guard
\* neither restricts nor leaves unpermitted
DeleteAllAllowed ==
    /\ last.req.op = "delete"
    /\ last.req.delete_all
    /\ has_table(last.before, last.req.dataset)
    /\ ~In(last.req.dataset, handler.restricted_tables)
    /\ (Len(handler.permitted_tables) > 0 => In(last.req.dataset, handler.permitted_tables))

\* the filter of the last call does not pass the split or the validation
BadFilter ==
    /\ Truthy(last.req.where)
    /\ \/ SplitRaises(last.req.where.val)
       \/ \E i \in 1..Len(LastTokens) :
              \/ Len(LastTokens[i]) # 3
              \/ ~In(Upper(LastTokens[i][2]), DEFAULT_SUPPORTED_OPERATORS)

\* C25 as stated: a delete with delete_all on an existing, unrestricted
\* dataset drops it whatever filter comes with it; a malformed or
\* unsupported filter does not make it fail.
C25_DeleteAllIgnoresFilter ==
    DeleteAllAllowed => (last.status = OK /\ ~has_table(store, last.req.dataset))

\* C25 amended: with delete_all the filter is never applied, but it is
\* still split and validated: the dataset is dropped whole when there is no
\* filter or the filter is well formed, and the call fails and changes
\* nothing when the filter is malformed or names an unsupported operator.
C25_DeleteAllValidatesFilter ==
    DeleteAllAllowed =>
        IF BadFilter
        THEN last.status # OK /\ store = last.before /\ ~Issued("drop_table")
        ELSE /\ last.status = OK
             /\ store = [last.before EXCEPT ![last.req.dataset] = NoTable]
             /\ ~Issued("delete")

\* a delete with delete_all and a filter of two tokens was refused as
\* malformed, and the dataset is still there
C25_BadFilterRefused ==
    /\ DeleteAllAllowed
    /\ MalformedFilter
    /\ has_table(store, last.req.dataset)
    /\ Len(store[last.req.dataset].rows) > 0

\* C26: a route's own restricted-table argument, when it is not None, is the
\* restricted list of that route, the empty list included (no table is
\* restricted on that route then); only None gives the route the router's
\* restricted_tables.
C26_OnlyNoneFallsBack ==
    /\ \A r \in Routes :
           wiring[r].restricted_tables
               = IF settings.overrides[r].some
                 THEN settings.overrides[r].val
                 ELSE settings.restricted_tables
    /\ (Overridden /\ ~In(last.req.dataset, settings.overrides[last.req.op].val))
           => ~Forbidden

\* the field of a request body that goes to a descriptor column
Supplied(body, c) ==
    CASE c = C_title -> body.title
      [] c = C_description -> body.description
      [] c = C_source -> body.source

\* C27: a metadata-update request that supplies some of title, description
\* and source leaves every descriptor field it does not supply as it was in
\* the record of its dataset.
C27_UnsuppliedKept ==
    (last.req.op = "metadata_update"
        /\ \E c \in DescriptorColumns : Supplied(last.req.body, c) # NULL) =>
        \A i \in RecordsOf(last.before, last.req.dataset) :
            \A c \in DescriptorColumns :
                Supplied(last.req.body, c) = NULL
                    => Ledger(store)[i][c] = Ledger(last.before)[i][c]

\* the DataManagers a MetadataManager wraps
Wrapped == {objects.managers[m].wraps : m \in 1..Len(objects.managers)} \ {0}

\* C28: a DataManager constructed with default arguments that no
\* MetadataManager wraps has the default restricted tables and no permitted
\* table, whatever MetadataManagers were constructed before or after it.
C28_OthersUntouched ==
    \A m \in 1..Len(objects.managers) :
        (objects.managers[m].default /\ objects.managers[m].wraps = 0 /\ m \notin Wrapped)
            => objects.handlers[objects.managers[m].handler]
                   = DataHandler(<<>>, DEFAULT_RESTRICTED_TABLES)

\* C29: from a Store that holds only the empty ledger, after any sequence of
\* requests served one at a time, every record of the ledger names a dataset
\* that exists and no two records name the same dataset.
C29_RecordsNameDatasets ==
    /\ \A i \in 1..Len(Ledger(store)) :
           /\ Ledger(store)[i][C_dataset] \in Names
           /\ has_table(store, Ledger(store)[i][C_dataset])
    /\ \A i, j \in 1..Len(Ledger(store)) :
           Ledger(store)[i][C_dataset] = Ledger(store)[j][C_dataset] => i = j

\* every record of the ledger was created no later than it was last updated
TimesOrdered ==
    \A i \in 1..Len(Ledger(store)) :
        Ledger(store)[i][C_created_at] <= Ledger(store)[i][C_updated_at]

\* a request leaves the created_at of every record it keeps as it was
CreatedKept ==
    \A d \in Names :
        \A i \in RecordsOf(store, d), j \in RecordsOf(store', d) :
            Ledger(store')[j][C_created_at] = Ledger(store)[i][C_created_at]

\* C30: under a clock that never goes back, after any sequence of router
\* requests every record of the ledger has created_at <= updated_at, and no
\* request changes the created_at of a record that is in the ledger before
\* and after it.
C30_CreatedBeforeUpdated == [] TimesOrdered /\ [][CreatedKept]_vars

\* a record created at one instant and updated by a later insert request
C30_UpdatedLater ==
    /\ last.req.op = "insert"
    /\ last.status = OK
    /\ \E i \in RecordsOf(store, last.req.dataset) :
           /\ Ledger(store)[i][C_created_at] < Ledger(store)[i][C_updated_at]
           /\ Ledger(store)[i][C_updated_at] = last.req.dt
           /\ \E j \in RecordsOf(last.before, last.req.dataset) :
                  Ledger(last.before)[j][C_updated_at] < last.req.dt

=============================================================================
